---- MODULE Spec2Model ----
(***************************************************************************)
(* Audio capture lifecycle of apps/desktop/src-tauri/src/audio.rs:         *)
(* the two process-wide atomics STOP_FLAG and IS_RUNNING, the commands     *)
(* start_audio_capture / stop_audio_capture run by the command thread,     *)
(* the capture thread run_audio_capture, the host's input callback with    *)
(* the three sample converters, and the device id parsing.                 *)
(***************************************************************************)
EXTENDS Integers, Sequences, FiniteSets, Bags, TLC

VARIABLES
    running,    \* IS_RUNNING
    stopFlag,   \* STOP_FLAG
    host,       \* the audio host's input devices: how many, which is default
    ctl,        \* per caller: position and locals of the command in progress
    threads,    \* bag of capture threads (run_audio_capture) that exist
    sink,       \* the last "audio-data" event emitted (at most one kept)
    conv,       \* a converter closure applied on its own: input and output
    hist,       \* history of the latest session (for stating the properties)
    last,       \* per caller: the last completed command and its result
    devices     \* the Vec<AudioDevice> of the last list_audio_devices call

vars ==
    <<running, stopFlag, host, ctl, threads, sink, conv, hist, last, devices>>

----------------------------------------------------------------------------
\* Bounds of the model.

\* capture threads that may exist at once (counting one that has cleared
\* IS_RUNNING and has not returned yet)
MaxThreads == 2
\* input devices the host enumerates
MaxDevices == 2
\* channels of a device configuration
MaxChannels == 2
\* samples in one callback buffer
MaxLen == 3

\* Program constants.
WaitCap == 20
F32NegScale == 32768
F32PosScale == 32767
U16Midpoint == 32768
I16Min == -32768
I16Max == 32767

----------------------------------------------------------------------------
\* Device ids are strings; they are modelled as sequences of characters so
\* that strip_prefix and parse are computed, not assumed.

IdDefault == <<"d", "e", "f", "a", "u", "l", "t">>
IdPrefix == <<"d", "e", "v", "i", "c", "e", "_">>

DeviceIds ==
    { IdDefault,
      IdPrefix \o <<"0">>,
      IdPrefix \o <<"1">>,
      IdPrefix \o <<"9">>,
      IdPrefix \o <<"+", "1">>,
      IdPrefix \o <<"x">>,
      <<"m", "i", "c">> }

Digits == {"0", "1", "2", "3", "4", "5", "6", "7", "8", "9"}

DigitVal(ch) ==
    CASE ch = "0" -> 0 [] ch = "1" -> 1 [] ch = "2" -> 2 [] ch = "3" -> 3
      [] ch = "4" -> 4 [] ch = "5" -> 5 [] ch = "6" -> 6 [] ch = "7" -> 7
      [] ch = "8" -> 8 [] ch = "9" -> 9

\* Option<usize>::None
NoIndex == 0 - 1

\* str::strip_prefix("device_"): the rest of the string, or None
HasPrefix(s, p) == Len(s) >= Len(p) /\ SubSeq(s, 1, Len(p)) = p
StripPrefix(s, p) == SubSeq(s, Len(p) + 1, Len(s))

RECURSIVE DigitsValue(_, _)
DigitsValue(s, acc) ==
    IF s = <<>> THEN acc
    ELSE DigitsValue(Tail(s), acc * 10 + DigitVal(Head(s)))

\* str::parse::<usize>(): an optional "+", then one or more decimal digits
\* (the ids of the model are far too short to overflow usize)
ParseUsize(s) ==
    LET body == IF s # <<>> /\ Head(s) = "+" THEN Tail(s) ELSE s
    IN  IF body = <<>> \/ \E i \in 1..Len(body) : body[i] \notin Digits
        THEN NoIndex
        ELSE DigitsValue(body, 0)

\* device_id.strip_prefix("device_").and_then(|s| s.parse().ok())
ParseDeviceIndex(id) ==
    IF HasPrefix(id, IdPrefix) THEN ParseUsize(StripPrefix(id, IdPrefix))
    ELSE NoIndex

----------------------------------------------------------------------------
\* Sample converters (the closures given to build_input_stream).

\* an f32 sample is the exact rational num/den; every value used is a dyadic
\* fraction, so the products below are exact in f32 as well
F32Samples ==
    { [num |-> 0 - 3, den |-> 2], [num |-> 0 - 1, den |-> 1],
      [num |-> 0 - 1, den |-> 2], [num |-> 0, den |-> 1],
      [num |-> 1, den |-> 2], [num |-> 1, den |-> 1], [num |-> 3, den |-> 2] }
I16Samples == {I16Min, 0 - 1, 0, 7, I16Max}
U16Samples == {0, 1, U16Midpoint, 2 * U16Midpoint - 1}

Formats == {"F32", "I16", "U16"}
\* SampleFormat has further variants (I8, I32, F64, ...): the `_` arm
AllFormats == Formats \cup {"Other"}

Samples(fmt) ==
    CASE fmt = "F32" -> F32Samples
      [] fmt = "I16" -> I16Samples
      [] fmt = "U16" -> U16Samples
      [] OTHER -> {0}

SeqsUpTo(S, n) == UNION {[1..k -> S] : k \in 0..n}

\* slice::chunks(n): consecutive chunks of n elements, the last one shorter
\* when the length is not a multiple of n
RECURSIVE Chunks(_, _)
Chunks(data, n) ==
    IF data = <<>> THEN <<>>
    ELSE IF Len(data) <= n THEN <<data>>
    ELSE <<SubSeq(data, 1, n)>> \o Chunks(SubSeq(data, n + 1, Len(data)), n)

\* integer part of a/b, rounded toward zero (b > 0)
TruncDiv(a, b) == IF a >= 0 THEN a \div b ELSE 0 - ((0 - a) \div b)

\* float `as i16`: truncates toward zero and saturates at the i16 range
SatI16(v) == IF v < I16Min THEN I16Min ELSE IF v > I16Max THEN I16Max ELSE v

\* integer `as i16`: keeps the low 16 bits
WrapI16(v) == ((v - I16Min) % (I16Max - I16Min + 1)) + I16Min

\* f32::clamp(-1.0, 1.0)
Clamp(s) ==
    IF s.num < 0 - s.den THEN [num |-> 0 - 1, den |-> 1]
    ELSE IF s.num > s.den THEN [num |-> 1, den |-> 1]
    ELSE s

\* mutant: one scale for both signs
F32OneScale(x) ==
    LET sample == Clamp(x)
    IN  SatI16(TruncDiv(sample.num * F32PosScale, sample.den))

F32ToI16(x) ==
    LET sample == Clamp(x)
    IN  IF sample.num < 0
        THEN SatI16(TruncDiv(sample.num * F32NegScale, sample.den))
        ELSE SatI16(TruncDiv(sample.num * F32PosScale, sample.den))

\* mutant: the u16 bits are reinterpreted as i16 without the midpoint shift
U16Reinterpret(x) == WrapI16(x)

U16ToI16(x) == WrapI16(x - U16Midpoint)

ConvertF32(data, channels) ==
    LET frames == Chunks(data, channels)
    IN  [i \in 1..Len(frames) |-> F32ToI16(frames[i][1])]

ConvertI16(data, channels) ==
    LET frames == Chunks(data, channels)
    IN  [i \in 1..Len(frames) |-> frames[i][1]]

ConvertU16(data, channels) ==
    LET frames == Chunks(data, channels)
    IN  [i \in 1..Len(frames) |-> U16ToI16(frames[i][1])]

Convert(fmt, data, channels) ==
    CASE fmt = "F32" -> ConvertF32(data, channels)
      [] fmt = "I16" -> ConvertI16(data, channels)
      [] fmt = "U16" -> ConvertU16(data, channels)

----------------------------------------------------------------------------
\* State of the lifecycle.

Callers == {"ui", "aux"}
\* tauri runs these synchronous commands one at a time on its command thread
MainCaller == "ui"

NoConfig == [fmt |-> "None", channels |-> 0]
\* what default_input_config() may return: any sample format; the channel
\* count plays no part in the lifecycle and is kept at MaxChannels
Configs == [fmt : AllFormats, channels : {MaxChannels}]

IdleCtl ==
    [pc |-> "idle", device_id |-> <<>>, device |-> 0, config |-> NoConfig,
     wait_count |-> 0, hostOps |-> <<>>, idleCall |-> FALSE]

\* a completed command: which one, its result, the host and device calls it
\* made, and for a stop: whether it saw IS_RUNNING clear, whether it followed
\* an accepted start, whether no session was active when it was called, and
\* whether the command before it was such a stop too; for a rejected start:
\* whether the command before it was a stop that returned with IS_RUNNING
\* still set
NoCall ==
    [op |-> "none", res |-> "none", hostOps |-> <<>>, spawned |-> FALSE,
     sawClear |-> FALSE, afterAccept |-> FALSE, idle |-> FALSE, repeat |-> FALSE,
     afterCap |-> FALSE]

StartResult(res, ops, spawned) ==
    [NoCall EXCEPT !.op = "start", !.res = res, !.hostOps = ops,
                   !.spawned = spawned]

\* the host's input devices: devices 1..ndev in enumeration order, the
\* position of the default input device among them (0: there is none), and
\* the devices whose name() returns an error
Hosts ==
    {[ndev |-> n, default |-> d, unnamed |-> u] :
        n \in 0..MaxDevices, d \in 0..MaxDevices, u \in SUBSET (1..MaxDevices)}
\* the hosts the lifecycle is explored on: one without any input device and
\* one with MaxDevices devices, the first of them the default; the names
\* are readable (start_audio_capture uses the name for its log line only)
LifecycleHosts ==
    {h \in Hosts : /\ h.ndev \in {0, MaxDevices}
                   /\ h.default = (IF h.ndev = 0 THEN 0 ELSE 1)
                   /\ h.unnamed = {}}

\* pcs of a capture thread, by the session state they belong to
OpeningPcs == {"opening", "built"}
StreamingPcs == {"streaming"}
DrainingPcs == {"draining", "closed"}
AlivePcs == OpeningPcs \cup StreamingPcs \cup DrainingPcs
\* pcs at which the thread owns a cpal::Stream
StreamPcs == {"built", "streaming", "draining", "play_failed"}
\* pcs at which the stream has been started and not dropped
PlayingPcs == {"streaming", "draining"}

ThreadPcs == AlivePcs \cup {"play_failed"}
\* every value a capture thread's record can take
ThreadRecs == [pc : ThreadPcs, config : Configs \cup {NoConfig}]
NumThreads == BagCardinality(threads)
CountPcs(S) ==
    LET RECURSIVE Sum(_)
        Sum(X) == IF X = {} THEN 0
                  ELSE LET t == CHOOSE t \in X : TRUE
                       IN  CopiesIn(t, threads) + Sum(X \ {t})
    IN  Sum({t \in BagToSet(threads) : t.pc \in S})
AliveThreads == CountPcs(AlivePcs)
OpenStreams == CountPcs(StreamPcs)

\* no session: IS_RUNNING clear and no capture thread in a session state
NoSession == ~running /\ AliveThreads = 0

StartPcs ==
    {"start_host", "start_select", "start_config", "start_store_stop",
     "start_store_run", "start_spawn"}
InFlightStarts == Cardinality({c \in Callers : ctl[c].pc \in StartPcs})

NoConv == [fmt |-> "None", channels |-> 0, data |-> <<>>, mono |-> <<>>, done |-> FALSE]

\* history of the latest session: a start has been accepted and no stop has
\* completed since; the session failed in Opening; a stop has set the stop
\* flag since the session began; a frame of the session has been delivered
NoHist ==
    [accepted |-> FALSE, failed |-> FALSE, stopIssued |-> FALSE,
     delivered |-> FALSE]

Init ==
    /\ running = FALSE
    /\ stopFlag = FALSE
    /\ host \in LifecycleHosts
    /\ ctl = [c \in Callers |-> IdleCtl]
    /\ threads = EmptyBag
    /\ sink = <<>>
    /\ conv = NoConv
    /\ hist = NoHist
    /\ last = [c \in Callers |-> NoCall]
    /\ devices = <<>>

----------------------------------------------------------------------------
\* start_audio_capture

\* the command returns Err(res) before anything was stored or spawned
StartErr(c, res, ops) ==
    /\ ctl' = [ctl EXCEPT ![c] = IdleCtl]
    /\ last' = [last EXCEPT ![c] = StartResult(res, ops, FALSE)]

\* mutant: the running check is missing
StartCheckBlind(c, id) ==
    /\ ctl[c].pc = "idle"
    /\ NumThreads + InFlightStarts < MaxThreads
    /\ ctl' = [ctl EXCEPT ![c] =
                 [IdleCtl EXCEPT !.pc = "start_host", !.device_id = id]]
    /\ UNCHANGED <<running, stopFlag, host, threads, sink, conv, hist, last,
                   devices>>

\* line 59-61: the running check, first statement of the command
StartCheck(c, id) ==
    /\ ctl[c].pc = "idle"
    /\ NumThreads + InFlightStarts < MaxThreads
    /\ IF running
       THEN /\ ctl' = [ctl EXCEPT ![c] = IdleCtl]
            /\ last' = [last EXCEPT ![c] =
                         [StartResult("already_running", <<>>, FALSE)
                            EXCEPT !.afterCap =
                                     last[c].op = "stop" /\ ~last[c].sawClear]]
       ELSE /\ ctl' = [ctl EXCEPT ![c] =
                        [IdleCtl EXCEPT !.pc = "start_host", !.device_id = id]]
            /\ last' = last
    /\ UNCHANGED <<running, stopFlag, host, threads, sink, conv, hist, devices>>

\* line 63: cpal::default_host()
StartHost(c) ==
    /\ ctl[c].pc = "start_host"
    /\ ctl' = [ctl EXCEPT ![c].pc = "start_select",
                          ![c].hostOps = Append(@, "default_host")]
    /\ UNCHANGED <<running, stopFlag, host, threads, sink, conv, hist, last,
                   devices>>

\* line 66-79: device selection
StartSelect(c) ==
    /\ ctl[c].pc = "start_select"
    /\ LET me == ctl[c]
           idx == ParseDeviceIndex(me.device_id)
       IN  IF me.device_id = IdDefault
           THEN LET ops == Append(me.hostOps, "default_input_device")
                IN  IF host.default = 0
                    THEN StartErr(c, "no_default", ops)
                    ELSE /\ ctl' = [ctl EXCEPT ![c].pc = "start_config",
                                               ![c].device_id = <<>>,
                                               ![c].device = host.default,
                                               ![c].hostOps = ops]
                         /\ last' = last
           ELSE IF idx = NoIndex
           THEN StartErr(c, "invalid_id", me.hostOps)
           ELSE LET ops == Append(me.hostOps, "input_devices")
                IN  \/ StartErr(c, "enum_error", ops)
                    \/ /\ idx >= host.ndev
                       /\ StartErr(c, "not_found", ops)
                    \/ /\ idx < host.ndev
                       /\ ctl' = [ctl EXCEPT ![c].pc = "start_config",
                                             ![c].device_id = <<>>,
                                             ![c].device = idx + 1,
                                             ![c].hostOps = ops]
                       /\ last' = last
    /\ UNCHANGED <<running, stopFlag, host, threads, sink, conv, hist, devices>>

\* mutant: STOP_FLAG is cleared before the configuration is queried
StartConfigClears(c) ==
    /\ ctl[c].pc = "start_config"
    /\ stopFlag' = FALSE
    /\ LET ops == ctl[c].hostOps \o <<"name", "default_input_config">>
       IN  \/ StartErr(c, "no_config", ops)
           \/ \E cfg \in Configs :
                /\ ctl' = [ctl EXCEPT ![c].pc = "start_store_stop",
                                      ![c].config = cfg,
                                      ![c].hostOps = ops]
                /\ last' = last
    /\ UNCHANGED <<running, host, threads, sink, conv, hist, devices>>

\* line 81-94: device.name() for the log, then device.default_input_config()
StartConfig(c) ==
    /\ ctl[c].pc = "start_config"
    /\ LET ops == ctl[c].hostOps \o <<"name", "default_input_config">>
       IN  \/ StartErr(c, "no_config", ops)
           \/ \E cfg \in Configs :
                /\ ctl' = [ctl EXCEPT ![c].pc = "start_store_stop",
                                      ![c].config = cfg,
                                      ![c].hostOps = ops]
                /\ last' = last
    /\ UNCHANGED <<running, stopFlag, host, threads, sink, conv, hist, devices>>

\* mutant: the stop flag is not cleared when a session begins
StartKeepStop(c) ==
    /\ ctl[c].pc = "start_store_stop"
    /\ ctl' = [ctl EXCEPT ![c].pc = "start_store_run"]
    /\ hist' = [hist EXCEPT !.failed = FALSE, !.stopIssued = FALSE,
                            !.delivered = FALSE]
    /\ UNCHANGED <<running, stopFlag, host, threads, sink, conv, last, devices>>

\* line 97: STOP_FLAG.store(false); the new session begins here
StartStoreStop(c) ==
    /\ ctl[c].pc = "start_store_stop"
    /\ stopFlag' = FALSE
    /\ ctl' = [ctl EXCEPT ![c].pc = "start_store_run"]
    /\ hist' = [hist EXCEPT !.failed = FALSE, !.stopIssued = FALSE,
                            !.delivered = FALSE]
    /\ UNCHANGED <<running, host, threads, sink, conv, last, devices>>

\* mutant: IS_RUNNING is not set before the capture thread is spawned
StartSkipRun(c) ==
    /\ ctl[c].pc = "start_store_run"
    /\ ctl' = [ctl EXCEPT ![c].pc = "start_spawn"]
    /\ UNCHANGED <<running, stopFlag, host, threads, sink, conv, hist, last,
                   devices>>

\* line 98: IS_RUNNING.store(true)
StartStoreRun(c) ==
    /\ ctl[c].pc = "start_store_run"
    /\ running' = TRUE
    /\ ctl' = [ctl EXCEPT ![c].pc = "start_spawn"]
    /\ UNCHANGED <<stopFlag, host, threads, sink, conv, hist, last, devices>>

\* mutant: the command opens the stream itself and returns its failure
StartSpawnSync(c) ==
    /\ ctl[c].pc = "start_spawn"
    /\ ctl' = [ctl EXCEPT ![c] = IdleCtl]
    /\ \/ /\ threads' = threads (+)
                 SetToBag({[pc |-> "streaming", config |-> ctl[c].config]})
          /\ ctl[c].config.fmt \in Formats
          /\ last' = [last EXCEPT ![c] = StartResult("ok", ctl[c].hostOps, TRUE)]
          /\ hist' = [hist EXCEPT !.accepted = TRUE]
          /\ UNCHANGED running
       \/ /\ running' = FALSE
          /\ last' = [last EXCEPT ![c] =
                       StartResult("stream_error", ctl[c].hostOps, FALSE)]
          /\ hist' = [hist EXCEPT !.failed = TRUE]
          /\ UNCHANGED threads
    /\ UNCHANGED <<stopFlag, host, sink, conv, devices>>

\* line 101-105: thread::spawn(run_audio_capture), then Ok(())
StartSpawn(c) ==
    /\ ctl[c].pc = "start_spawn"
    /\ threads' = threads (+) SetToBag({[pc |-> "opening", config |-> ctl[c].config]})
    /\ ctl' = [ctl EXCEPT ![c] = IdleCtl]
    /\ last' = [last EXCEPT ![c] = StartResult("ok", ctl[c].hostOps, TRUE)]
    /\ hist' = [hist EXCEPT !.accepted = TRUE]
    /\ UNCHANGED <<running, stopFlag, host, sink, conv, devices>>

----------------------------------------------------------------------------
\* stop_audio_capture

\* line 244-247: STOP_FLAG.store(true); wait_count = 0
StopStore(c) ==
    /\ ctl[c].pc = "idle"
    /\ stopFlag' = TRUE
    /\ ctl' = [ctl EXCEPT ![c] =
                 [IdleCtl EXCEPT !.pc = "stop_poll", !.idleCall = NoSession]]
    /\ hist' = [hist EXCEPT !.stopIssued = TRUE]
    /\ UNCHANGED <<running, host, threads, sink, conv, last, devices>>

StopResult(c, res) ==
    [NoCall EXCEPT !.op = "stop", !.res = res, !.sawClear = ~running,
                   !.afterAccept = hist.accepted,
                   !.idle = ctl[c].idleCall,
                   !.repeat = last[c].op = "stop" /\ last[c].idle]

\* mutant: a stop that reaches its cap with IS_RUNNING still set fails
StopPollStrict(c) ==
    /\ ctl[c].pc = "stop_poll"
    /\ IF running /\ ctl[c].wait_count < WaitCap
       THEN /\ ctl' = [ctl EXCEPT ![c].wait_count = @ + 1]
            /\ UNCHANGED <<last, hist>>
       ELSE /\ ctl' = [ctl EXCEPT ![c] = IdleCtl]
            /\ last' = [last EXCEPT ![c] =
                         StopResult(c, IF running THEN "timeout" ELSE "ok")]
            /\ hist' = [hist EXCEPT !.accepted = FALSE]
    /\ UNCHANGED <<running, stopFlag, host, threads, sink, conv, devices>>

\* mutant: a stop returns after its first read of IS_RUNNING
StopPollOnce(c) ==
    /\ ctl[c].pc = "stop_poll"
    /\ ctl' = [ctl EXCEPT ![c] = IdleCtl]
    /\ last' = [last EXCEPT ![c] = StopResult(c, "ok")]
    /\ hist' = [hist EXCEPT !.accepted = FALSE]
    /\ UNCHANGED <<running, stopFlag, host, threads, sink, conv, devices>>

\* line 248-253: one evaluation of the loop condition, then either the
\* sleep and the increment, or Ok(())
StopPoll(c) ==
    /\ ctl[c].pc = "stop_poll"
    /\ IF running /\ ctl[c].wait_count < WaitCap
       THEN /\ ctl' = [ctl EXCEPT ![c].wait_count = @ + 1]
            /\ UNCHANGED <<last, hist>>
       ELSE /\ ctl' = [ctl EXCEPT ![c] = IdleCtl]
            /\ last' = [last EXCEPT ![c] = StopResult(c, "ok")]
            /\ hist' = [hist EXCEPT !.accepted = FALSE]
    /\ UNCHANGED <<running, stopFlag, host, threads, sink, conv, devices>>

----------------------------------------------------------------------------
\* run_audio_capture: the capture thread

Replace(t, u) == (threads (-) SetToBag({t})) (+) SetToBag({u})
Remove(t) == threads (-) SetToBag({t})

\* line 115-133: the match on the sample format and build_input_stream
Open(t) ==
    /\ BagIn(t, threads)
    /\ t.pc = "opening"
    /\ \/ /\ t.config.fmt \notin Formats
          /\ running' = FALSE
          /\ threads' = Remove(t)
          /\ hist' = [hist EXCEPT !.failed = TRUE]
       \/ /\ t.config.fmt \in Formats
          /\ \/ /\ running' = FALSE
                /\ threads' = Remove(t)
                /\ hist' = [hist EXCEPT !.failed = TRUE]
             \/ /\ threads' = Replace(t, [t EXCEPT !.pc = "built"])
                /\ UNCHANGED <<running, hist>>
    /\ UNCHANGED <<stopFlag, host, ctl, sink, conv, last, devices>>

\* mutant: a failed stream.play() leaves IS_RUNNING set
PlayKeepRunning(t) ==
    /\ BagIn(t, threads)
    /\ t.pc = "built"
    /\ \/ /\ threads' = Replace(t, [t EXCEPT !.pc = "streaming"])
          /\ UNCHANGED hist
       \/ /\ threads' = Replace(t, [pc |-> "play_failed", config |-> NoConfig])
          /\ hist' = [hist EXCEPT !.failed = TRUE]
    /\ UNCHANGED <<running, stopFlag, host, ctl, sink, conv, last, devices>>

\* line 135-141: stream.play(); on Err IS_RUNNING is cleared while the
\* stream is still owned: it is dropped by the return that follows
Play(t) ==
    /\ BagIn(t, threads)
    /\ t.pc = "built"
    /\ \/ /\ threads' = Replace(t, [t EXCEPT !.pc = "streaming"])
          /\ UNCHANGED <<running, hist>>
       \/ /\ running' = FALSE
          /\ threads' = Replace(t, [pc |-> "play_failed", config |-> NoConfig])
          /\ hist' = [hist EXCEPT !.failed = TRUE]
    /\ UNCHANGED <<stopFlag, host, ctl, sink, conv, last, devices>>

\* line 138: return, which drops the stream that failed to start
PlayFailedReturn(t) ==
    /\ BagIn(t, threads)
    /\ t.pc = "play_failed"
    /\ threads' = Remove(t)
    /\ UNCHANGED <<running, stopFlag, host, ctl, sink, conv, hist, last,
                   devices>>

\* mutant: the loop polls IS_RUNNING instead of STOP_FLAG
PollOnRunning(t) ==
    /\ BagIn(t, threads)
    /\ t.pc = "streaming"
    /\ ~running
    /\ threads' = Replace(t, [t EXCEPT !.pc = "draining"])
    /\ UNCHANGED <<running, stopFlag, host, ctl, sink, conv, hist, last,
                   devices>>

\* mutant: IS_RUNNING is cleared on leaving the loop, before the stream is
\* dropped
PollAndClear(t) ==
    /\ BagIn(t, threads)
    /\ t.pc = "streaming"
    /\ stopFlag
    /\ running' = FALSE
    /\ threads' = Replace(t, [t EXCEPT !.pc = "draining"])
    /\ UNCHANGED <<stopFlag, host, ctl, sink, conv, hist, last, devices>>

\* line 144-146: one evaluation of the loop condition; the sleep changes
\* nothing
Poll(t) ==
    /\ BagIn(t, threads)
    /\ t.pc = "streaming"
    /\ stopFlag
    /\ threads' = Replace(t, [t EXCEPT !.pc = "draining"])
    /\ UNCHANGED <<running, stopFlag, host, ctl, sink, conv, hist, last,
                   devices>>

\* mutant: IS_RUNNING is cleared as soon as the stream is dropped, before
\* the thread is through
DropStreamAndClear(t) ==
    /\ BagIn(t, threads)
    /\ t.pc = "draining"
    /\ running' = FALSE
    /\ threads' = Replace(t, [pc |-> "closed", config |-> NoConfig])
    /\ UNCHANGED <<stopFlag, host, ctl, sink, conv, hist, last, devices>>

\* line 148: drop(stream)
DropStream(t) ==
    /\ BagIn(t, threads)
    /\ t.pc = "draining"
    /\ threads' = Replace(t, [pc |-> "closed", config |-> NoConfig])
    /\ UNCHANGED <<running, stopFlag, host, ctl, sink, conv, hist, last,
                   devices>>

\* line 149-151: IS_RUNNING.store(false), the log line and the return
ClearRunning(t) ==
    /\ BagIn(t, threads)
    /\ t.pc = "closed"
    /\ running' = FALSE
    /\ threads' = Remove(t)
    /\ UNCHANGED <<stopFlag, host, ctl, sink, conv, hist, last, devices>>

\* the buffer the host hands to the callback of a running stream
HostBuffers(fmt) ==
    LET s == CHOOSE x \in Samples(fmt) : TRUE
    IN  {[i \in 1..MaxLen |-> s]}

\* line 163-181 / 197-208 / 224-235: the host's callback thread runs the
\* converter on one buffer and emits the frame; a failed emit is ignored
Callback(t) ==
    /\ BagIn(t, threads)
    /\ t.pc \in PlayingPcs
    /\ \E data \in HostBuffers(t.config.fmt) :
         sink' = <<Convert(t.config.fmt, data, t.config.channels)>>
    /\ hist' = [hist EXCEPT !.delivered = TRUE]
    /\ UNCHANGED <<running, stopFlag, host, ctl, threads, conv, last, devices>>

----------------------------------------------------------------------------

\* the steps of start_audio_capture after its running check
StartSteps(c) ==
    \/ StartHost(c)
    \/ StartSelect(c)
    \/ StartConfig(c)
    \/ StartStoreStop(c)
    \/ StartStoreRun(c)
    \/ StartSpawn(c)

ContinueCall(c) ==
    \/ StartSteps(c)
    \/ StopPoll(c)

Command(c) ==
    \/ \E id \in DeviceIds : StartCheck(c, id)
    \/ StopStore(c)
    \/ ContinueCall(c)

CaptureStep(t) ==
    \/ Open(t)
    \/ Play(t)
    \/ PlayFailedReturn(t)
    \/ Poll(t)
    \/ DropStream(t)
    \/ ClearRunning(t)

Next ==
    \/ Command(MainCaller)
    \/ \E t \in ThreadRecs : CaptureStep(t)
    \/ \E t \in ThreadRecs : Callback(t)

Spec == Init /\ [][Next]_vars

\* the command thread keeps executing a command it has begun, and a
\* spawned capture thread keeps being scheduled
FairSpec ==
    /\ Spec
    /\ WF_vars(ContinueCall(MainCaller))
    /\ WF_vars(\E t \in ThreadRecs : CaptureStep(t))

----------------------------------------------------------------------------
\* The converters applied on their own: the closure of build_stream_f32,
\* build_stream_i16 or build_stream_u16 is invoked once on a buffer.

ConvInputs ==
    UNION {[fmt : {f}, channels : 1..MaxChannels,
            data : SeqsUpTo(Samples(f), MaxLen), mono : {<<>>}, done : {FALSE}]
           : f \in Formats}

InitConv ==
    /\ running = FALSE
    /\ stopFlag = FALSE
    /\ host = [ndev |-> 0, default |-> 0, unnamed |-> {}]
    /\ ctl = [c \in Callers |-> IdleCtl]
    /\ threads = EmptyBag
    /\ sink = <<>>
    /\ conv \in ConvInputs
    /\ hist = NoHist
    /\ last = [c \in Callers |-> NoCall]
    /\ devices = <<>>

Emit(mono) ==
    /\ conv' = [conv EXCEPT !.mono = mono, !.done = TRUE]
    /\ sink' = <<mono>>
    /\ UNCHANGED <<running, stopFlag, host, ctl, threads, hist, last, devices>>

\* line 163-181
InvokeF32 ==
    /\ ~conv.done
    /\ conv.fmt = "F32"
    /\ Emit(ConvertF32(conv.data, conv.channels))

\* line 197-208
InvokeI16 ==
    /\ ~conv.done
    /\ conv.fmt = "I16"
    /\ Emit(ConvertI16(conv.data, conv.channels))

\* line 224-235
InvokeU16 ==
    /\ ~conv.done
    /\ conv.fmt = "U16"
    /\ Emit(ConvertU16(conv.data, conv.channels))

NextConv == InvokeF32 \/ InvokeI16 \/ InvokeU16

ConvSpec == InitConv /\ [][NextConv]_vars

----------------------------------------------------------------------------
\* Properties.

\* C1: in every reachable state at most one capture thread is in a session
\* state (Opening, Streaming or Draining) and at most one stream is open.
C1_AtMostOneSession == AliveThreads <= 1 /\ OpenStreams <= 1

\* C2 as stated: once a start has been accepted and no stop has completed
\* since, a further start does not get past the running check: it returns
\* the already-running error and no capture thread is spawned.
C2_SecondStartRejected ==
    [][\A c \in Callers :
        (ctl[c].pc = "idle" /\ hist.accepted)
            => /\ ctl'[c].pc \in {"idle", "stop_poll"}
               /\ (last'[c] # last[c]
                     => /\ last'[c].res = "already_running"
                        /\ NumThreads' <= NumThreads)]_vars

\* C2 amended: once a start has been accepted, no stop has completed since
\* and the session has not failed in Opening, a further start does not get
\* past the running check, whatever its device id: it returns the
\* already-running error before any host or device call, and no capture
\* thread is spawned.
C2_SecondStartRejectedWhileSessionLives ==
    [][\A c \in Callers :
        (ctl[c].pc = "idle" /\ hist.accepted /\ ~hist.failed)
            => /\ ctl'[c].pc \in {"idle", "stop_poll"}
               /\ (last'[c] # last[c]
                     => /\ last'[c].res = "already_running"
                        /\ last'[c].hostOps = <<>>
                        /\ ~last'[c].spawned
                        /\ NumThreads' <= NumThreads)]_vars

\* a second start has just been rejected while the session of the first
\* is streaming
C2_Witness ==
    /\ ctl[MainCaller].pc = "idle"
    /\ last[MainCaller].op = "start"
    /\ last[MainCaller].res = "already_running"
    /\ hist.accepted
    /\ ~hist.failed
    /\ CountPcs(StreamingPcs) = 1

\* C3: a stop always ends and always returns success: the stop flag is set
\* from its first step on, the wait loop runs at most WaitCap times (each
\* pass re-reads IS_RUNNING, sleeps and counts; one more read ends the
\* loop), the result is success also when IS_RUNNING is still set at the
\* cap, and no step of a stop changes the capture threads or IS_RUNNING.
C3_StopBoundedSuccess ==
    /\ [](\A c \in Callers :
            /\ ctl[c].wait_count <= WaitCap
            /\ (ctl[c].pc = "stop_poll" => stopFlag)
            /\ (last[c].op = "stop" => last[c].res = "ok"))
    /\ [][\A c \in Callers :
            ((ctl[c].pc = "stop_poll" \/ ctl'[c].pc = "stop_poll")
                /\ ctl'[c] # ctl[c])
            => (threads' = threads /\ running' = running)]_vars
    /\ \A c \in Callers :
            (ctl[c].pc = "stop_poll")
                ~> (ctl[c].pc = "idle" /\ last[c].op = "stop" /\ last[c].res = "ok")

\* a stop has returned success at its cap while the capture thread is alive
\* and IS_RUNNING is still set
C3_Witness ==
    /\ ctl[MainCaller].pc = "idle"
    /\ last[MainCaller].op = "stop"
    /\ last[MainCaller].res = "ok"
    /\ ~last[MainCaller].sawClear
    /\ running
    /\ AliveThreads = 1

\* C4: a stop made while no session is active returns success at once and
\* leaves IS_RUNNING clear; after one or several such stops the flags are
\* the same (IS_RUNNING clear, STOP_FLAG set); and a capture thread never
\* sees a stop flag that was set before its session began.
C4_IdleStopIsNoOp ==
    /\ \A c \in Callers :
          /\ (ctl[c].pc = "stop_poll" /\ ctl[c].idleCall)
                => (~running /\ ctl[c].wait_count = 0)
          /\ (ctl[c].pc = "idle" /\ last[c].op = "stop" /\ last[c].idle)
                => (last[c].res = "ok" /\ last[c].sawClear /\ ~running /\ stopFlag)
    /\ (AliveThreads > 0 /\ stopFlag) => hist.stopIssued
    /\ CountPcs(DrainingPcs) > 0 => hist.stopIssued

\* two stops in a row with no session active have returned
C4_Witness ==
    /\ ctl[MainCaller].pc = "idle"
    /\ last[MainCaller].op = "stop"
    /\ last[MainCaller].idle
    /\ last[MainCaller].repeat
    /\ last[MainCaller].res = "ok"

\* C5: when a stop that followed an accepted start has returned after
\* seeing IS_RUNNING clear, IS_RUNNING is clear and no capture thread is in
\* a session state, and the caller's next start is not rejected as already
\* running.
C5_CleanStopThenStart ==
    /\ [](\A c \in Callers :
            (ctl[c].pc = "idle" /\ last[c].op = "stop" /\ last[c].sawClear
                /\ last[c].afterAccept)
              => (~running /\ AliveThreads = 0))
    /\ [][\A c \in Callers :
            (ctl[c].pc = "idle" /\ last[c].op = "stop" /\ last[c].sawClear
                /\ last[c].afterAccept)
              => ~(last'[c].op = "start" /\ last'[c].res = "already_running")]_vars

\* the start that follows a stop which ended a live session has passed the
\* running check, resolved its device and configuration, and is about to
\* spawn
C5_Witness ==
    /\ ctl[MainCaller].pc = "start_spawn"
    /\ last[MainCaller].op = "stop"
    /\ last[MainCaller].sawClear
    /\ last[MainCaller].afterAccept
    /\ ~last[MainCaller].idle

\* C6: once a stop has set the stop flag while a capture thread is in a
\* session state, the flag stays set as long as such a thread exists, and
\* under fair scheduling the thread ends its session: IS_RUNNING is cleared
\* and no thread is left in a session state.
C6_StopEventuallyObserved ==
    /\ [][(stopFlag /\ AliveThreads > 0) => stopFlag']_vars
    /\ (stopFlag /\ hist.stopIssued /\ AliveThreads > 0)
          ~> (~running /\ AliveThreads = 0)

\* the stop request has been observed: the thread has left its poll loop
C6_Witness ==
    /\ stopFlag
    /\ hist.stopIssued
    /\ CountPcs({"draining"}) = 1
    /\ running

StartResults ==
    {"ok", "already_running", "invalid_id", "no_default", "not_found",
     "enum_error", "no_config"}

\* C7: an accepted start returns success at the step that spawns the capture
\* thread, with the stop flag clear and IS_RUNNING set and the new thread
\* still at the start of Opening; a command's result never changes by a
\* step of a capture thread, and a start's result is never a failure of
\* Opening.
C7_StartFireAndForget ==
    /\ [](\A c \in Callers :
            /\ (ctl[c].pc = "start_spawn" => (running /\ ~stopFlag))
            /\ (last[c].op = "start"
                  => /\ last[c].res \in StartResults
                     /\ (last[c].spawned <=> last[c].res = "ok")))
    /\ [][\A c \in Callers :
            (ctl[c].pc = "start_spawn" /\ ctl'[c].pc = "idle")
              => /\ last'[c].op = "start"
                 /\ last'[c].res = "ok"
                 /\ threads' = threads (+)
                        SetToBag({[pc |-> "opening", config |-> ctl[c].config]})
                 /\ running' = running]_vars
    /\ [][(ctl' = ctl /\ (threads' # threads \/ running' # running))
            => last' = last]_vars

\* the session has failed in Opening and the start that spawned it has
\* returned success
C7_Witness ==
    /\ hist.failed
    /\ ctl[MainCaller].pc = "idle"
    /\ last[MainCaller].op = "start"
    /\ last[MainCaller].res = "ok"
    /\ last[MainCaller].spawned

\* C8: the step at which a session fails in Opening clears IS_RUNNING and
\* leaves no thread in a session state and no stream playing; no frame of a
\* failed session is ever delivered; and afterwards IS_RUNNING stays clear
\* until a start sets it, so the next start is not rejected as already
\* running.
C8_OpeningFailureReturnsToIdle ==
    /\ [][(~hist.failed /\ hist.failed')
            => /\ running' = FALSE
               /\ AliveThreads' = 0
               /\ CountPcs(PlayingPcs)' = 0
               /\ CountPcs(PlayingPcs) = 0
               /\ sink' = sink]_vars
    /\ [](hist.failed => ~hist.delivered)
    /\ [](\A c \in Callers :
            (hist.failed /\ ctl[c].pc \in {"idle", "stop_poll"})
                => (~running /\ AliveThreads = 0))
    /\ [][\A c \in Callers :
            (hist.failed /\ ctl[c].pc = "idle")
                => ~(last'[c] # last[c] /\ last'[c].res = "already_running")]_vars

\* after a session failed in Opening a later start has passed the running
\* check and is about to begin a new session
C8_Witness ==
    /\ hist.failed
    /\ ~hist.delivered
    /\ ctl[MainCaller].pc = "start_store_stop"

\* the shape the claim asks of a device id: "default", or "device_" and then
\* a decimal number
WellFormedId(id) ==
    \/ id = IdDefault
    \/ /\ HasPrefix(id, IdPrefix)
       /\ Len(id) > Len(IdPrefix)
       /\ \A i \in (Len(IdPrefix) + 1)..Len(id) : id[i] \in Digits

\* C9: a start whose device id has neither shape has made no call to the
\* audio host or to a device, neither while it runs nor when it has
\* returned the invalid-device-id error.
C9_InvalidIdBeforeHost ==
    \A c \in Callers :
        /\ (ctl[c].pc \in StartPcs /\ ctl[c].device_id # <<>>
                /\ ~WellFormedId(ctl[c].device_id))
              => ctl[c].hostOps = <<>>
        /\ (last[c].op = "start" /\ last[c].res = "invalid_id")
              => last[c].hostOps = <<>>

\* C10: every converter yields floor(input length / channel count) samples.
C10_OutputLenFloor ==
    conv.done => Len(conv.mono) = Len(conv.data) \div conv.channels

\* the first-channel sample of the i-th frame of a buffer
FirstOfFrame(data, channels, i) == data[(i - 1) * channels + 1]

\* C11: the U16 converter yields, for every frame, its first-channel sample
\* minus 32768 as an exact integer (no wrap-around), a value of the signed
\* 16-bit range; frames whose samples are in order give outputs in the same
\* order; 32768 gives 0, 0 gives -32768 and 65535 gives 32767.
C11_U16Shift ==
    (conv.done /\ conv.fmt = "U16")
      => \A i \in 1..Len(conv.mono) :
           LET x == FirstOfFrame(conv.data, conv.channels, i)
           IN  /\ conv.mono[i] = x - 32768
               /\ conv.mono[i] >= 0 - 32768
               /\ conv.mono[i] <= 32767
               /\ (x = 32768 => conv.mono[i] = 0)
               /\ (x = 0 => conv.mono[i] = 0 - 32768)
               /\ (x = 65535 => conv.mono[i] = 32767)
               /\ \A j \in 1..Len(conv.mono) :
                    (x < FirstOfFrame(conv.data, conv.channels, j))
                        => conv.mono[i] < conv.mono[j]

\* the U16 converter has run on the buffer 65535, 0, 32768 with one channel
C11_Witness ==
    /\ conv.done
    /\ conv.fmt = "U16"
    /\ conv.channels = 1
    /\ conv.data = <<65535, 0, 32768>>
    /\ conv.mono = <<32767, 0 - 32768, 0>>

\* C12: the F32 converter yields, for every frame, a value of the signed
\* 16-bit range that is the first-channel sample, clamped to [-1, 1], times
\* 32768 when negative and times 32767 otherwise, truncated toward zero;
\* 1.0 gives 32767, -1.0 gives -32768, 0.0 gives 0, a sample above 1.0 gives
\* 32767 and a sample below -1.0 gives -32768.
C12_F32Scale ==
    (conv.done /\ conv.fmt = "F32")
      => \A i \in 1..Len(conv.mono) :
           LET x == FirstOfFrame(conv.data, conv.channels, i)
               r == conv.mono[i]
           IN  /\ r >= 0 - 32768
               /\ r <= 32767
               /\ (x.num = x.den => r = 32767)
               /\ (x.num = 0 - x.den => r = 0 - 32768)
               /\ (x.num = 0 => r = 0)
               /\ (x.num > x.den => r = 32767)
               /\ (x.num < 0 - x.den => r = 0 - 32768)
               /\ (x.num >= 0 /\ x.num <= x.den
                     => /\ r * x.den <= x.num * 32767
                        /\ x.num * 32767 < (r + 1) * x.den)
               /\ (x.num < 0 /\ x.num >= 0 - x.den
                     => /\ (r - 1) * x.den < x.num * 32768
                        /\ x.num * 32768 <= r * x.den)

\* the F32 converter has run on the buffer -1.5, -0.5, 0.5 with one channel
C12_Witness ==
    /\ conv.done
    /\ conv.fmt = "F32"
    /\ conv.channels = 1
    /\ conv.data = << [num |-> 0 - 3, den |-> 2], [num |-> 0 - 1, den |-> 2],
                      [num |-> 1, den |-> 2] >>
    /\ conv.mono = <<0 - 32768, 0 - 16384, 16383>>

\* C14: a stop that ends while IS_RUNNING is set has run its wait loop to
\* the cap and returns success, leaving IS_RUNNING set; and as long as
\* IS_RUNNING stays set the caller's next start does not get past the running
\* check: it returns the already-running error and spawns no capture thread.
\* The witness is the execution the claim says exists.
C14_SoftStopRace ==
    /\ [][\A c \in Callers :
            (ctl[c].pc = "stop_poll" /\ ctl'[c].pc = "idle" /\ running)
              => /\ ctl[c].wait_count = WaitCap
                 /\ running'
                 /\ last'[c].op = "stop"
                 /\ last'[c].res = "ok"
                 /\ ~last'[c].sawClear]_vars
    /\ [][\A c \in Callers :
            (ctl[c].pc = "idle" /\ last[c].op = "stop" /\ ~last[c].sawClear
                /\ running)
              => /\ ctl'[c].pc \in {"idle", "stop_poll"}
                 /\ (last'[c] # last[c]
                       => /\ last'[c].op = "start"
                          /\ last'[c].res = "already_running"
                          /\ last'[c].afterCap
                          /\ threads' = threads)]_vars

\* the start that directly followed a stop which returned success at its cap
\* has been rejected as already running; the session is still alive
C14_Witness ==
    /\ ctl[MainCaller].pc = "idle"
    /\ last[MainCaller].op = "start"
    /\ last[MainCaller].res = "already_running"
    /\ last[MainCaller].afterCap
    /\ running
    /\ AliveThreads = 1

\* C15: in every reachable state in which a stream is open IS_RUNNING is
\* set; equivalently, whenever IS_RUNNING is clear no stream is open.
C15_OpenStreamImpliesRunning == OpenStreams > 0 => running

\* C16 as stated: IS_RUNNING is clear while no session exists or the
\* session is still Opening, and set throughout Streaming and Draining.
C16_RunningOnlyOnceOpened ==
    /\ CountPcs(OpeningPcs) > 0 => ~running
    /\ AliveThreads = 0 => ~running
    /\ CountPcs(StreamingPcs \cup DrainingPcs) > 0 => running

\* C16 amended: IS_RUNNING is set from the store in start_audio_capture,
\* just before the capture thread is spawned, until the capture thread
\* clears it: it is set exactly when a start is about to spawn its thread or
\* a capture thread is in Opening, Streaming or Draining, and clear
\* otherwise.
C16_RunningFromAcceptance ==
    running <=> (AliveThreads > 0 \/ \E c \in Callers : ctl[c].pc = "start_spawn")

\* the session is still Opening and IS_RUNNING is set
C16_Witness ==
    /\ running
    /\ CountPcs({"opening"}) = 1
    /\ ctl[MainCaller].pc = "idle"
    /\ last[MainCaller].res = "ok"

\* C18: a step of start_audio_capture before its stores leaves IS_RUNNING,
\* STOP_FLAG and the capture threads as they are, and every error a start
\* returns is returned by such a step; the call is recorded as having
\* spawned nothing.
C18_FailedStartChangesNothing ==
    /\ [][\A c \in Callers :
            (ctl[c].pc \in {"idle", "start_host", "start_select", "start_config"}
                /\ ctl'[c] # ctl[c] /\ ctl'[c].pc # "stop_poll")
              => (running' = running /\ stopFlag' = stopFlag
                    /\ threads' = threads)]_vars
    /\ [][\A c \in Callers :
            (last'[c] # last[c] /\ last'[c].op = "start" /\ last'[c].res # "ok")
              => /\ ctl[c].pc \in {"idle", "start_select", "start_config"}
                 /\ ~last'[c].spawned
                 /\ running' = running
                 /\ stopFlag' = stopFlag
                 /\ threads' = threads]_vars

\* a start has failed on the device's configuration while the stop flag of
\* an earlier stop is still set and nothing is running
C18_Witness ==
    /\ ctl[MainCaller].pc = "idle"
    /\ last[MainCaller].op = "start"
    /\ last[MainCaller].res = "no_config"
    /\ stopFlag
    /\ ~running
    /\ NumThreads = 0

\* C19: the input callback can run only while IS_RUNNING is set; the first
\* frame of a session is delivered with IS_RUNNING set; and when a stop that
\* followed an accepted start has returned after reading IS_RUNNING clear,
\* no callback can run until the caller's next command.
C19_NoFrameWhileNotRunning ==
    /\ [](\A t \in ThreadRecs : ENABLED Callback(t) => running)
    /\ [](CountPcs(PlayingPcs) > 0 => running)
    /\ [][(~hist.delivered /\ hist.delivered') => (running /\ running')]_vars
    /\ [](\A c \in Callers :
            (ctl[c].pc = "idle" /\ last[c].op = "stop" /\ last[c].sawClear
                /\ last[c].afterAccept)
              => \A t \in ThreadRecs : ~ENABLED Callback(t))

\* a session delivered a frame and the stop that ended it has returned
\* after reading IS_RUNNING clear
C19_Witness ==
    /\ ctl[MainCaller].pc = "idle"
    /\ last[MainCaller].op = "stop"
    /\ last[MainCaller].sawClear
    /\ last[MainCaller].afterAccept
    /\ hist.delivered
    /\ ~running

----------------------------------------------------------------------------
\* start_audio_capture called once from a second thread while the command
\* thread runs its commands: the steps of the two calls interleave with each
\* other and with the capture threads.

SecondCaller == "aux"

\* the second thread's one call
SecondStart ==
    \/ /\ last[SecondCaller].op = "none"
       /\ StartCheck(SecondCaller, IdDefault)
    \/ StartSteps(SecondCaller)

NextConc ==
    \/ Command(MainCaller)
    \/ SecondStart
    \/ \E t \in ThreadRecs : CaptureStep(t)
    \/ \E t \in ThreadRecs : Callback(t)

ConcSpec == Init /\ [][NextConc]_vars

\* positions of a start that has been accepted: every check that can
\* return an error is behind it
AcceptedPcs == {"start_store_stop", "start_store_run", "start_spawn"}

\* C17: with the two callers' steps interleaved, at most one capture thread
\* is in a session state, and the accepted starts that have not yet spawned
\* and the capture threads in a session state are together at most one: two
\* starts are never both accepted.
C17_OneOfTwoAccepted ==
    /\ AliveThreads <= 1
    /\ Cardinality({c \in Callers : ctl[c].pc \in AcceptedPcs}) + AliveThreads <= 1

----------------------------------------------------------------------------
\* list_audio_devices, and a start that is given an id from its result.

\* input devices of the hosts the listing is explored on: enough for a
\* two-digit enumeration index
MaxListed == 11

\* at most one device has an unreadable name
ListHosts ==
    [ndev : 0..MaxListed, default : 0..MaxListed,
     unnamed : {{}} \cup {{k} : k \in 1..MaxListed}]

DigitChar(d) == CHOOSE ch \in Digits : DigitVal(ch) = d

\* format!("{}", idx) of a usize: its decimal digits
RECURSIVE FormatUsize(_)
FormatUsize(n) ==
    IF n < 10 THEN <<DigitChar(n)>>
    ELSE FormatUsize(n \div 10) \o <<DigitChar(n % 10)>>

\* an AudioDevice: its id, and its name, which is held as the device the
\* name was read from and whether the default suffix was appended to it
AudioDevice(id, device, suffix) ==
    [id |-> id, name |-> device, suffix |-> suffix]

\* line 31-38: the default input device, if there is one and its name can be
\* read
DefaultEntry(h) ==
    IF h.default # 0 /\ h.default \notin h.unnamed
    THEN <<AudioDevice(IdDefault, h.default, TRUE)>>
    ELSE <<>>

\* mutant: the ids count the listed devices, not the enumerated ones
EnumEntriesDense(h) ==
    LET named == SelectSeq([i \in 1..h.ndev |-> i], LAMBDA d : d \notin h.unnamed)
    IN  [k \in 1..Len(named) |->
           AudioDevice(IdPrefix \o FormatUsize(k - 1), named[k], FALSE)]

\* line 42-49: every enumerated device whose name can be read, under the id
\* made from its index in the enumeration
EnumEntries(h) ==
    LET all == [i \in 1..h.ndev |->
                  AudioDevice(IdPrefix \o FormatUsize(i - 1), i, FALSE)]
    IN  SelectSeq(all, LAMBDA e : e.name \notin h.unnamed)

\* line 26-53: list_audio_devices; input_devices() may return an error, and
\* then only the default entry is returned; the result is Ok in both cases
ListDevices(c) ==
    /\ ctl[c].pc = "idle"
    /\ \/ /\ devices' = DefaultEntry(host) \o EnumEntries(host)
          /\ last' = [last EXCEPT ![c] =
                       [NoCall EXCEPT !.op = "list", !.res = "ok",
                          !.hostOps = <<"default_host", "default_input_device",
                                        "input_devices">>]]
       \/ /\ devices' = DefaultEntry(host)
          /\ last' = [last EXCEPT ![c] =
                       [NoCall EXCEPT !.op = "list", !.res = "ok",
                          !.hostOps = <<"default_host", "default_input_device",
                                        "input_devices_err">>]]
    /\ UNCHANGED <<running, stopFlag, host, ctl, threads, sink, conv, hist>>

\* start_audio_capture is called with an id taken from the last listing
StartListed(c) ==
    \E i \in 1..Len(devices) : StartCheck(c, devices[i].id)

InitList ==
    /\ running = FALSE
    /\ stopFlag = FALSE
    /\ host \in ListHosts
    /\ ctl = [c \in Callers |-> IdleCtl]
    /\ threads = EmptyBag
    /\ sink = <<>>
    /\ conv = NoConv
    /\ hist = NoHist
    /\ last = [c \in Callers |-> NoCall]
    /\ devices = <<>>

NextList ==
    \/ ListDevices(MainCaller)
    \/ StartListed(MainCaller)
    \/ StartSteps(MainCaller)

ListSpec == InitList /\ [][NextList]_vars

\* the positions of the enumeration a listing is to name under a device_<i>
\* id according to C13: the readable ones other than the default device
OtherNamed(h) ==
    SelectSeq([i \in 1..h.ndev |-> i],
              LAMBDA d : d \notin h.unnamed /\ d # h.default)

\* C13: after a listing whose enumeration succeeded, the result is the
\* default device under id "default" (if there is one and its name is
\* readable) followed by every other readable input device in enumeration
\* order under "device_<i>", i its 0-based position in the enumeration; no
\* device is listed twice.
C13_ListingOrderOnce ==
    \A c \in Callers :
      (last[c].op = "list" /\ last[c].hostOps[3] = "input_devices")
        => /\ devices =
                DefaultEntry(host) \o
                [k \in 1..Len(OtherNamed(host)) |->
                   AudioDevice(IdPrefix \o FormatUsize(OtherNamed(host)[k] - 1),
                               OtherNamed(host)[k], FALSE)]
           /\ \A i, j \in 1..Len(devices) :
                i # j => devices[i].name # devices[j].name

\* C20: a start given an id of the last listing, on the host that was
\* listed, never fails on the id (invalid id, device not found, no default
\* device), and the device it selects is the one the listing's entry with
\* that id names.
C20_ListedIdSelectsListedDevice ==
    /\ [][\A c \in Callers :
            (ctl[c].pc = "start_select" /\ ctl'[c].pc = "start_config")
              => \E i \in 1..Len(devices) :
                    /\ devices[i].id = ctl[c].device_id
                    /\ devices[i].name = ctl'[c].device]_vars
    /\ [][\A c \in Callers :
            (last'[c] # last[c] /\ last'[c].op = "start")
              => last'[c].res \notin {"invalid_id", "not_found", "no_default"}]_vars

\* the id "device_10" of a listing that skipped an unreadable device has
\* selected the eleventh device of the enumeration
C20_Witness ==
    /\ ctl[MainCaller].pc = "start_config"
    /\ ctl[MainCaller].device = 11
    /\ host.default # 11
    /\ host.unnamed = {2}
    /\ host.ndev >= 11
    /\ Len(devices) >= 10

====
